---- MODULE Spec2Model ----
(***************************************************************************)
(* The interview flow of chatbot/interview_chat.py: generate_questions,    *)
(* evaluate_answer and the command-line loop of run_interview.             *)
(*                                                                         *)
(* A Python str is modelled as the sequence of its code points (ord of     *)
(* each character), so that split, strip, lower, replace, startswith and   *)
(* the substring test are computed the way the interpreter computes them,  *)
(* on every character of Unicode.  Each literal is written next to the    *)
(* text it spells.  A dict is a record whose domain is the keys it holds.  *)
(* The hosted model is an opaque collaborator: each of its replies is      *)
(* drawn from a set.                                                       *)
(* Indices are 0-based, as in the source.                                  *)
(***************************************************************************)
EXTENDS Integers, Sequences, FiniteSets, TLC

VARIABLES
    pc,               \* position of run_interview
    content,          \* the model's reply to the question-generation prompt
    state,            \* the session dict of run_interview
    questions,        \* run_interview's local list of questions
    current_question, \* the text printed at the top of the loop
    idx,              \* run_interview's index of the current main question
    followup_mode,    \* run_interview's flag
    result,           \* the dict last returned (no key before the first return)
    response,         \* the model's last reply to the evaluation prompt
    branch,           \* the return statement evaluate_answer last took
    lookups,          \* the indices evaluate_answer has subscripted questions with
    presented,        \* the main questions printed so far, in order
    followups,        \* consecutive follow-up turns on the current main question
    advances          \* evaluate_answer calls that did not signal a follow-up

vars == <<pc, content, state, questions, current_question, idx, followup_mode,
          result, response, branch, lookups, presented, followups, advances>>

----------------------------------------------------------------------------
(* Bounds of the model. *)

\* the most answers a candidate types in one session
MaxTurns == 3
\* the most answers in the sessions that explore evaluation replies
MaxEvalTurns == 1
\* the longest generation reply, in characters, enumerated exhaustively
MaxLen == 4
\* the most lines of a generation reply built from sample lines
MaxLines == 6
\* the most lines of an evaluation reply built from sample lines
MaxEvalLines == 2
\* the most follow-ups in a row on one question in the sessions that are
\* checked to end
MaxFollowups == 2

----------------------------------------------------------------------------
(* Literals of the source. *)

\* questions[:5]
MaxQuestions == 5

\* line.strip("12345. ")
NumberingChars ==  \* "12345. "
    <<49, 50, 51, 52, 53, 46, 32>>

\* line.startswith("strength")
StrengthPrefix ==  \* "strength"
    <<115, 116, 114, 101, 110, 103, 116, 104>>

\* line.replace("strength:", "")
StrengthLabel ==  \* "strength:"
    <<115, 116, 114, 101, 110, 103, 116, 104, 58>>

\* line.startswith("weakness")
WeaknessPrefix ==  \* "weakness"
    <<119, 101, 97, 107, 110, 101, 115, 115>>

\* line.replace("weakness:", "")
WeaknessLabel ==  \* "weakness:"
    <<119, 101, 97, 107, 110, 101, 115, 115, 58>>

\* "followup: yes" in line
FollowupYes ==  \* "followup: yes"
    <<102, 111, 108, 108, 111, 119, 117, 112, 58, 32, 121, 101, 115>>

\* the sentinel of: "interview complete" in current_question.lower()
CompleteSentinel ==  \* "interview complete"
    <<105, 110, 116, 101, 114, 118, 105, 101, 119, 32, 99, 111, 109, 112, 108,
    101, 116, 101>>

\* AIMessage(content="Interview complete.")
InterviewCompleteMsg ==  \* "Interview complete."
    <<73, 110, 116, 101, 114, 118, 105, 101, 119, 32, 99, 111, 109, 112, 108,
    101, 116, 101, 46>>

----------------------------------------------------------------------------
(* Python's str methods, on sequences of characters. *)

\* str.split("\n"): the separator
Newline == 10

Range(s) == {s[i] : i \in 1..Len(s)}

InRanges(c, ranges) == \E r \in ranges : r[1] <= c /\ c <= r[2]

\* the code points c with c.isspace(), as ranges <<first, last>>
WhitespaceRanges ==
    {<<9, 13>>, <<28, 32>>, <<133, 133>>, <<160, 160>>, <<5760, 5760>>,
    <<8192, 8202>>, <<8232, 8233>>, <<8239, 8239>>, <<8287, 8287>>,
    <<12288, 12288>>}

\* the characters str.strip() removes when called without an argument
Whitespace == UNION {r[1]..r[2] : r \in WhitespaceRanges}

\* the code points str.lower() maps to one other code point, as runs
\* <<first, last, step, offset>>: every step-th code point from first to
\* last maps to itself plus offset
LowerRuns ==
    {<<65, 90, 1, 32>>, <<192, 214, 1, 32>>, <<216, 222, 1, 32>>,
    <<256, 302, 2, 1>>, <<306, 310, 2, 1>>, <<313, 327, 2, 1>>,
    <<330, 374, 2, 1>>, <<376, 376, 1, -121>>, <<377, 381, 2, 1>>,
    <<385, 385, 1, 210>>, <<386, 388, 2, 1>>, <<390, 390, 1, 206>>,
    <<391, 391, 1, 1>>, <<393, 394, 1, 205>>, <<395, 395, 1, 1>>,
    <<398, 398, 1, 79>>, <<399, 399, 1, 202>>, <<400, 400, 1, 203>>,
    <<401, 401, 1, 1>>, <<403, 403, 1, 205>>, <<404, 404, 1, 207>>,
    <<406, 406, 1, 211>>, <<407, 407, 1, 209>>, <<408, 408, 1, 1>>,
    <<412, 412, 1, 211>>, <<413, 413, 1, 213>>, <<415, 415, 1, 214>>,
    <<416, 420, 2, 1>>, <<422, 422, 1, 218>>, <<423, 423, 1, 1>>,
    <<425, 425, 1, 218>>, <<428, 428, 1, 1>>, <<430, 430, 1, 218>>,
    <<431, 431, 1, 1>>, <<433, 434, 1, 217>>, <<435, 437, 2, 1>>,
    <<439, 439, 1, 219>>, <<440, 440, 1, 1>>, <<444, 444, 1, 1>>,
    <<452, 452, 1, 2>>, <<453, 453, 1, 1>>, <<455, 455, 1, 2>>,
    <<456, 456, 1, 1>>, <<458, 458, 1, 2>>, <<459, 475, 2, 1>>,
    <<478, 494, 2, 1>>, <<497, 497, 1, 2>>, <<498, 500, 2, 1>>,
    <<502, 502, 1, -97>>, <<503, 503, 1, -56>>, <<504, 542, 2, 1>>,
    <<544, 544, 1, -130>>, <<546, 562, 2, 1>>, <<570, 570, 1, 10795>>,
    <<571, 571, 1, 1>>, <<573, 573, 1, -163>>, <<574, 574, 1, 10792>>,
    <<577, 577, 1, 1>>, <<579, 579, 1, -195>>, <<580, 580, 1, 69>>,
    <<581, 581, 1, 71>>, <<582, 590, 2, 1>>, <<880, 882, 2, 1>>,
    <<886, 886, 1, 1>>, <<895, 895, 1, 116>>, <<902, 902, 1, 38>>,
    <<904, 906, 1, 37>>, <<908, 908, 1, 64>>, <<910, 911, 1, 63>>,
    <<913, 929, 1, 32>>, <<931, 939, 1, 32>>, <<975, 975, 1, 8>>,
    <<984, 1006, 2, 1>>, <<1012, 1012, 1, -60>>, <<1015, 1015, 1, 1>>,
    <<1017, 1017, 1, -7>>, <<1018, 1018, 1, 1>>, <<1021, 1023, 1, -130>>,
    <<1024, 1039, 1, 80>>, <<1040, 1071, 1, 32>>, <<1120, 1152, 2, 1>>,
    <<1162, 1214, 2, 1>>, <<1216, 1216, 1, 15>>, <<1217, 1229, 2, 1>>,
    <<1232, 1326, 2, 1>>, <<1329, 1366, 1, 48>>, <<4256, 4293, 1, 7264>>,
    <<4295, 4295, 1, 7264>>, <<4301, 4301, 1, 7264>>,
    <<5024, 5103, 1, 38864>>, <<5104, 5109, 1, 8>>, <<7312, 7354, 1, -3008>>,
    <<7357, 7359, 1, -3008>>, <<7680, 7828, 2, 1>>, <<7838, 7838, 1, -7615>>,
    <<7840, 7934, 2, 1>>, <<7944, 7951, 1, -8>>, <<7960, 7965, 1, -8>>,
    <<7976, 7983, 1, -8>>, <<7992, 7999, 1, -8>>, <<8008, 8013, 1, -8>>,
    <<8025, 8031, 2, -8>>, <<8040, 8047, 1, -8>>, <<8072, 8079, 1, -8>>,
    <<8088, 8095, 1, -8>>, <<8104, 8111, 1, -8>>, <<8120, 8121, 1, -8>>,
    <<8122, 8123, 1, -74>>, <<8124, 8124, 1, -9>>, <<8136, 8139, 1, -86>>,
    <<8140, 8140, 1, -9>>, <<8152, 8153, 1, -8>>, <<8154, 8155, 1, -100>>,
    <<8168, 8169, 1, -8>>, <<8170, 8171, 1, -112>>, <<8172, 8172, 1, -7>>,
    <<8184, 8185, 1, -128>>, <<8186, 8187, 1, -126>>, <<8188, 8188, 1, -9>>,
    <<8486, 8486, 1, -7517>>, <<8490, 8490, 1, -8383>>,
    <<8491, 8491, 1, -8262>>, <<8498, 8498, 1, 28>>, <<8544, 8559, 1, 16>>,
    <<8579, 8579, 1, 1>>, <<9398, 9423, 1, 26>>, <<11264, 11311, 1, 48>>,
    <<11360, 11360, 1, 1>>, <<11362, 11362, 1, -10743>>,
    <<11363, 11363, 1, -3814>>, <<11364, 11364, 1, -10727>>,
    <<11367, 11371, 2, 1>>, <<11373, 11373, 1, -10780>>,
    <<11374, 11374, 1, -10749>>, <<11375, 11375, 1, -10783>>,
    <<11376, 11376, 1, -10782>>, <<11378, 11378, 1, 1>>,
    <<11381, 11381, 1, 1>>, <<11390, 11391, 1, -10815>>,
    <<11392, 11490, 2, 1>>, <<11499, 11501, 2, 1>>, <<11506, 11506, 1, 1>>,
    <<42560, 42604, 2, 1>>, <<42624, 42650, 2, 1>>, <<42786, 42798, 2, 1>>,
    <<42802, 42862, 2, 1>>, <<42873, 42875, 2, 1>>,
    <<42877, 42877, 1, -35332>>, <<42878, 42886, 2, 1>>,
    <<42891, 42891, 1, 1>>, <<42893, 42893, 1, -42280>>,
    <<42896, 42898, 2, 1>>, <<42902, 42920, 2, 1>>,
    <<42922, 42922, 1, -42308>>, <<42923, 42923, 1, -42319>>,
    <<42924, 42924, 1, -42315>>, <<42925, 42925, 1, -42305>>,
    <<42926, 42926, 1, -42308>>, <<42928, 42928, 1, -42258>>,
    <<42929, 42929, 1, -42282>>, <<42930, 42930, 1, -42261>>,
    <<42931, 42931, 1, 928>>, <<42932, 42946, 2, 1>>,
    <<42948, 42948, 1, -48>>, <<42949, 42949, 1, -42307>>,
    <<42950, 42950, 1, -35384>>, <<42951, 42953, 2, 1>>,
    <<42960, 42960, 1, 1>>, <<42966, 42968, 2, 1>>, <<42997, 42997, 1, 1>>,
    <<65313, 65338, 1, 32>>, <<66560, 66599, 1, 40>>,
    <<66736, 66771, 1, 40>>, <<66928, 66964, 2, 39>>,
    <<66929, 66937, 2, 39>>, <<66941, 66953, 2, 39>>,
    <<66957, 66961, 2, 39>>, <<66965, 66965, 1, 39>>,
    <<68736, 68786, 1, 64>>, <<71840, 71871, 1, 32>>,
    <<93760, 93791, 1, 32>>, <<125184, 125217, 1, 34>>}

\* the case-ignorable code points, as ranges <<first, last>>
CaseIgnorableRanges ==
    {<<39, 39>>, <<46, 46>>, <<58, 58>>, <<94, 94>>, <<96, 96>>, <<168, 168>>,
    <<173, 173>>, <<175, 175>>, <<180, 180>>, <<183, 184>>, <<688, 879>>,
    <<884, 885>>, <<890, 890>>, <<900, 901>>, <<903, 903>>, <<1155, 1161>>,
    <<1369, 1369>>, <<1375, 1375>>, <<1425, 1469>>, <<1471, 1471>>,
    <<1473, 1474>>, <<1476, 1477>>, <<1479, 1479>>, <<1524, 1524>>,
    <<1536, 1541>>, <<1552, 1562>>, <<1564, 1564>>, <<1600, 1600>>,
    <<1611, 1631>>, <<1648, 1648>>, <<1750, 1757>>, <<1759, 1768>>,
    <<1770, 1773>>, <<1807, 1807>>, <<1809, 1809>>, <<1840, 1866>>,
    <<1958, 1968>>, <<2027, 2037>>, <<2042, 2042>>, <<2045, 2045>>,
    <<2070, 2093>>, <<2137, 2139>>, <<2184, 2184>>, <<2192, 2193>>,
    <<2200, 2207>>, <<2249, 2306>>, <<2362, 2362>>, <<2364, 2364>>,
    <<2369, 2376>>, <<2381, 2381>>, <<2385, 2391>>, <<2402, 2403>>,
    <<2417, 2417>>, <<2433, 2433>>, <<2492, 2492>>, <<2497, 2500>>,
    <<2509, 2509>>, <<2530, 2531>>, <<2558, 2558>>, <<2561, 2562>>,
    <<2620, 2620>>, <<2625, 2626>>, <<2631, 2632>>, <<2635, 2637>>,
    <<2641, 2641>>, <<2672, 2673>>, <<2677, 2677>>, <<2689, 2690>>,
    <<2748, 2748>>, <<2753, 2757>>, <<2759, 2760>>, <<2765, 2765>>,
    <<2786, 2787>>, <<2810, 2815>>, <<2817, 2817>>, <<2876, 2876>>,
    <<2879, 2879>>, <<2881, 2884>>, <<2893, 2893>>, <<2901, 2902>>,
    <<2914, 2915>>, <<2946, 2946>>, <<3008, 3008>>, <<3021, 3021>>,
    <<3072, 3072>>, <<3076, 3076>>, <<3132, 3132>>, <<3134, 3136>>,
    <<3142, 3144>>, <<3146, 3149>>, <<3157, 3158>>, <<3170, 3171>>,
    <<3201, 3201>>, <<3260, 3260>>, <<3263, 3263>>, <<3270, 3270>>,
    <<3276, 3277>>, <<3298, 3299>>, <<3328, 3329>>, <<3387, 3388>>,
    <<3393, 3396>>, <<3405, 3405>>, <<3426, 3427>>, <<3457, 3457>>,
    <<3530, 3530>>, <<3538, 3540>>, <<3542, 3542>>, <<3633, 3633>>,
    <<3636, 3642>>, <<3654, 3662>>, <<3761, 3761>>, <<3764, 3772>>,
    <<3782, 3782>>, <<3784, 3789>>, <<3864, 3865>>, <<3893, 3893>>,
    <<3895, 3895>>, <<3897, 3897>>, <<3953, 3966>>, <<3968, 3972>>,
    <<3974, 3975>>, <<3981, 3991>>, <<3993, 4028>>, <<4038, 4038>>,
    <<4141, 4144>>, <<4146, 4151>>, <<4153, 4154>>, <<4157, 4158>>,
    <<4184, 4185>>, <<4190, 4192>>, <<4209, 4212>>, <<4226, 4226>>,
    <<4229, 4230>>, <<4237, 4237>>, <<4253, 4253>>, <<4348, 4348>>,
    <<4957, 4959>>, <<5906, 5908>>, <<5938, 5939>>, <<5970, 5971>>,
    <<6002, 6003>>, <<6068, 6069>>, <<6071, 6077>>, <<6086, 6086>>,
    <<6089, 6099>>, <<6103, 6103>>, <<6109, 6109>>, <<6155, 6159>>,
    <<6211, 6211>>, <<6277, 6278>>, <<6313, 6313>>, <<6432, 6434>>,
    <<6439, 6440>>, <<6450, 6450>>, <<6457, 6459>>, <<6679, 6680>>,
    <<6683, 6683>>, <<6742, 6742>>, <<6744, 6750>>, <<6752, 6752>>,
    <<6754, 6754>>, <<6757, 6764>>, <<6771, 6780>>, <<6783, 6783>>,
    <<6823, 6823>>, <<6832, 6862>>, <<6912, 6915>>, <<6964, 6964>>,
    <<6966, 6970>>, <<6972, 6972>>, <<6978, 6978>>, <<7019, 7027>>,
    <<7040, 7041>>, <<7074, 7077>>, <<7080, 7081>>, <<7083, 7085>>,
    <<7142, 7142>>, <<7144, 7145>>, <<7149, 7149>>, <<7151, 7153>>,
    <<7212, 7219>>, <<7222, 7223>>, <<7288, 7293>>, <<7376, 7378>>,
    <<7380, 7392>>, <<7394, 7400>>, <<7405, 7405>>, <<7412, 7412>>,
    <<7416, 7417>>, <<7468, 7530>>, <<7544, 7544>>, <<7579, 7679>>,
    <<8125, 8125>>, <<8127, 8129>>, <<8141, 8143>>, <<8157, 8159>>,
    <<8173, 8175>>, <<8189, 8190>>, <<8203, 8207>>, <<8216, 8217>>,
    <<8228, 8228>>, <<8231, 8231>>, <<8234, 8238>>, <<8288, 8292>>,
    <<8294, 8303>>, <<8305, 8305>>, <<8319, 8319>>, <<8336, 8348>>,
    <<8400, 8432>>, <<11388, 11389>>, <<11503, 11505>>, <<11631, 11631>>,
    <<11647, 11647>>, <<11744, 11775>>, <<11823, 11823>>, <<12293, 12293>>,
    <<12330, 12333>>, <<12337, 12341>>, <<12347, 12347>>, <<12441, 12446>>,
    <<12540, 12542>>, <<40981, 40981>>, <<42232, 42237>>, <<42508, 42508>>,
    <<42607, 42610>>, <<42612, 42621>>, <<42623, 42623>>, <<42652, 42655>>,
    <<42736, 42737>>, <<42752, 42785>>, <<42864, 42864>>, <<42888, 42890>>,
    <<42994, 42996>>, <<43000, 43001>>, <<43010, 43010>>, <<43014, 43014>>,
    <<43019, 43019>>, <<43045, 43046>>, <<43052, 43052>>, <<43204, 43205>>,
    <<43232, 43249>>, <<43263, 43263>>, <<43302, 43309>>, <<43335, 43345>>,
    <<43392, 43394>>, <<43443, 43443>>, <<43446, 43449>>, <<43452, 43453>>,
    <<43471, 43471>>, <<43493, 43494>>, <<43561, 43566>>, <<43569, 43570>>,
    <<43573, 43574>>, <<43587, 43587>>, <<43596, 43596>>, <<43632, 43632>>,
    <<43644, 43644>>, <<43696, 43696>>, <<43698, 43700>>, <<43703, 43704>>,
    <<43710, 43711>>, <<43713, 43713>>, <<43741, 43741>>, <<43756, 43757>>,
    <<43763, 43764>>, <<43766, 43766>>, <<43867, 43871>>, <<43881, 43883>>,
    <<44005, 44005>>, <<44008, 44008>>, <<44013, 44013>>, <<64286, 64286>>,
    <<64434, 64450>>, <<65024, 65039>>, <<65043, 65043>>, <<65056, 65071>>,
    <<65106, 65106>>, <<65109, 65109>>, <<65279, 65279>>, <<65287, 65287>>,
    <<65294, 65294>>, <<65306, 65306>>, <<65342, 65342>>, <<65344, 65344>>,
    <<65392, 65392>>, <<65438, 65439>>, <<65507, 65507>>, <<65529, 65531>>,
    <<66045, 66045>>, <<66272, 66272>>, <<66422, 66426>>, <<67456, 67461>>,
    <<67463, 67504>>, <<67506, 67514>>, <<68097, 68099>>, <<68101, 68102>>,
    <<68108, 68111>>, <<68152, 68154>>, <<68159, 68159>>, <<68325, 68326>>,
    <<68900, 68903>>, <<69291, 69292>>, <<69446, 69456>>, <<69506, 69509>>,
    <<69633, 69633>>, <<69688, 69702>>, <<69744, 69744>>, <<69747, 69748>>,
    <<69759, 69761>>, <<69811, 69814>>, <<69817, 69818>>, <<69821, 69821>>,
    <<69826, 69826>>, <<69837, 69837>>, <<69888, 69890>>, <<69927, 69931>>,
    <<69933, 69940>>, <<70003, 70003>>, <<70016, 70017>>, <<70070, 70078>>,
    <<70089, 70092>>, <<70095, 70095>>, <<70191, 70193>>, <<70196, 70196>>,
    <<70198, 70199>>, <<70206, 70206>>, <<70367, 70367>>, <<70371, 70378>>,
    <<70400, 70401>>, <<70459, 70460>>, <<70464, 70464>>, <<70502, 70508>>,
    <<70512, 70516>>, <<70712, 70719>>, <<70722, 70724>>, <<70726, 70726>>,
    <<70750, 70750>>, <<70835, 70840>>, <<70842, 70842>>, <<70847, 70848>>,
    <<70850, 70851>>, <<71090, 71093>>, <<71100, 71101>>, <<71103, 71104>>,
    <<71132, 71133>>, <<71219, 71226>>, <<71229, 71229>>, <<71231, 71232>>,
    <<71339, 71339>>, <<71341, 71341>>, <<71344, 71349>>, <<71351, 71351>>,
    <<71453, 71455>>, <<71458, 71461>>, <<71463, 71467>>, <<71727, 71735>>,
    <<71737, 71738>>, <<71995, 71996>>, <<71998, 71998>>, <<72003, 72003>>,
    <<72148, 72151>>, <<72154, 72155>>, <<72160, 72160>>, <<72193, 72202>>,
    <<72243, 72248>>, <<72251, 72254>>, <<72263, 72263>>, <<72273, 72278>>,
    <<72281, 72283>>, <<72330, 72342>>, <<72344, 72345>>, <<72752, 72758>>,
    <<72760, 72765>>, <<72767, 72767>>, <<72850, 72871>>, <<72874, 72880>>,
    <<72882, 72883>>, <<72885, 72886>>, <<73009, 73014>>, <<73018, 73018>>,
    <<73020, 73021>>, <<73023, 73029>>, <<73031, 73031>>, <<73104, 73105>>,
    <<73109, 73109>>, <<73111, 73111>>, <<73459, 73460>>, <<78896, 78904>>,
    <<92912, 92916>>, <<92976, 92982>>, <<92992, 92995>>, <<94031, 94031>>,
    <<94095, 94111>>, <<94176, 94177>>, <<94179, 94180>>, <<110576, 110579>>,
    <<110581, 110587>>, <<110589, 110590>>, <<113821, 113822>>,
    <<113824, 113827>>, <<118528, 118573>>, <<118576, 118598>>,
    <<119143, 119145>>, <<119155, 119170>>, <<119173, 119179>>,
    <<119210, 119213>>, <<119362, 119364>>, <<121344, 121398>>,
    <<121403, 121452>>, <<121461, 121461>>, <<121476, 121476>>,
    <<121499, 121503>>, <<121505, 121519>>, <<122880, 122886>>,
    <<122888, 122904>>, <<122907, 122913>>, <<122915, 122916>>,
    <<122918, 122922>>, <<123184, 123197>>, <<123566, 123566>>,
    <<123628, 123631>>, <<125136, 125142>>, <<125252, 125259>>,
    <<127995, 127999>>, <<917505, 917505>>, <<917536, 917631>>,
    <<917760, 917999>>}

\* the cased code points that are not case-ignorable (the only ones the
\* final-sigma test consults), as ranges <<first, last>>
CasedRanges ==
    {<<65, 90>>, <<97, 122>>, <<170, 170>>, <<181, 181>>, <<186, 186>>,
    <<192, 214>>, <<216, 246>>, <<248, 442>>, <<444, 447>>, <<452, 659>>,
    <<661, 687>>, <<880, 883>>, <<886, 887>>, <<891, 893>>, <<895, 895>>,
    <<902, 902>>, <<904, 906>>, <<908, 908>>, <<910, 929>>, <<931, 1013>>,
    <<1015, 1153>>, <<1162, 1327>>, <<1329, 1366>>, <<1376, 1416>>,
    <<4256, 4293>>, <<4295, 4295>>, <<4301, 4301>>, <<4304, 4346>>,
    <<4349, 4351>>, <<5024, 5109>>, <<5112, 5117>>, <<7296, 7304>>,
    <<7312, 7354>>, <<7357, 7359>>, <<7424, 7467>>, <<7531, 7543>>,
    <<7545, 7578>>, <<7680, 7957>>, <<7960, 7965>>, <<7968, 8005>>,
    <<8008, 8013>>, <<8016, 8023>>, <<8025, 8025>>, <<8027, 8027>>,
    <<8029, 8029>>, <<8031, 8061>>, <<8064, 8116>>, <<8118, 8124>>,
    <<8126, 8126>>, <<8130, 8132>>, <<8134, 8140>>, <<8144, 8147>>,
    <<8150, 8155>>, <<8160, 8172>>, <<8178, 8180>>, <<8182, 8188>>,
    <<8450, 8450>>, <<8455, 8455>>, <<8458, 8467>>, <<8469, 8469>>,
    <<8473, 8477>>, <<8484, 8484>>, <<8486, 8486>>, <<8488, 8488>>,
    <<8490, 8493>>, <<8495, 8500>>, <<8505, 8505>>, <<8508, 8511>>,
    <<8517, 8521>>, <<8526, 8526>>, <<8544, 8575>>, <<8579, 8580>>,
    <<9398, 9449>>, <<11264, 11387>>, <<11390, 11492>>, <<11499, 11502>>,
    <<11506, 11507>>, <<11520, 11557>>, <<11559, 11559>>, <<11565, 11565>>,
    <<42560, 42605>>, <<42624, 42651>>, <<42786, 42863>>, <<42865, 42887>>,
    <<42891, 42894>>, <<42896, 42954>>, <<42960, 42961>>, <<42963, 42963>>,
    <<42965, 42969>>, <<42997, 42998>>, <<43002, 43002>>, <<43824, 43866>>,
    <<43872, 43880>>, <<43888, 43967>>, <<64256, 64262>>, <<64275, 64279>>,
    <<65313, 65338>>, <<65345, 65370>>, <<66560, 66639>>, <<66736, 66771>>,
    <<66776, 66811>>, <<66928, 66938>>, <<66940, 66954>>, <<66956, 66962>>,
    <<66964, 66965>>, <<66967, 66977>>, <<66979, 66993>>, <<66995, 67001>>,
    <<67003, 67004>>, <<68736, 68786>>, <<68800, 68850>>, <<71840, 71903>>,
    <<93760, 93823>>, <<119808, 119892>>, <<119894, 119964>>,
    <<119966, 119967>>, <<119970, 119970>>, <<119973, 119974>>,
    <<119977, 119980>>, <<119982, 119993>>, <<119995, 119995>>,
    <<119997, 120003>>, <<120005, 120069>>, <<120071, 120074>>,
    <<120077, 120084>>, <<120086, 120092>>, <<120094, 120121>>,
    <<120123, 120126>>, <<120128, 120132>>, <<120134, 120134>>,
    <<120138, 120144>>, <<120146, 120485>>, <<120488, 120512>>,
    <<120514, 120538>>, <<120540, 120570>>, <<120572, 120596>>,
    <<120598, 120628>>, <<120630, 120654>>, <<120656, 120686>>,
    <<120688, 120712>>, <<120714, 120744>>, <<120746, 120770>>,
    <<120772, 120779>>, <<122624, 122633>>, <<122635, 122654>>,
    <<125184, 125251>>, <<127280, 127305>>, <<127312, 127337>>,
    <<127344, 127369>>}

InRun(c, r) == r[1] <= c /\ c <= r[2] /\ (c - r[1]) % r[3] = 0

IsCaseIgnorable(c) == InRanges(c, CaseIgnorableRanges)

IsCased(c) == InRanges(c, CasedRanges)

\* the lower-case code point of c, for a c that lower-cases to one code point
\* whatever surrounds it
SimpleLower(c) ==
    IF c < 128 THEN (IF 65 <= c /\ c <= 90 THEN c + 32 ELSE c)
    ELSE IF \E r \in LowerRuns : InRun(c, r)
         THEN c + (CHOOSE r \in LowerRuns : InRun(c, r))[4]
         ELSE c

\* the nearest position at or before j that holds no case-ignorable code
\* point, 0 when there is none
RECURSIVE LastSignificant(_, _)
LastSignificant(s, j) ==
    IF j < 1 THEN 0
    ELSE IF IsCaseIgnorable(s[j]) THEN LastSignificant(s, j - 1) ELSE j

\* the nearest position at or after j that holds no case-ignorable code
\* point, 0 when there is none
RECURSIVE NextSignificant(_, _)
NextSignificant(s, j) ==
    IF j > Len(s) THEN 0
    ELSE IF IsCaseIgnorable(s[j]) THEN NextSignificant(s, j + 1) ELSE j

\* the capital sigma at position i ends a word: a cased letter before it and
\* none after it, case-ignorable code points skipped
IsFinalSigma(s, i) ==
    LET before == LastSignificant(s, i - 1)
        after == NextSignificant(s, i + 1)
    IN  /\ before # 0
        /\ IsCased(s[before])
        /\ after = 0 \/ ~IsCased(s[after])

\* what str.lower() writes for position i: capital sigma (931) becomes the
\* final (962) or the medial (963) small sigma, capital I with dot above (304)
\* becomes i and a combining dot (105, 775), any other code point its
\* SimpleLower
LowerAt(s, i) ==
    IF s[i] < 128 THEN <<SimpleLower(s[i])>>
    ELSE IF s[i] = 931 THEN <<IF IsFinalSigma(s, i) THEN 962 ELSE 963>>
    ELSE IF s[i] = 304 THEN <<105, 775>>
    ELSE <<SimpleLower(s[i])>>

RECURSIVE LowerFrom(_, _)
LowerFrom(s, i) ==
    IF i > Len(s) THEN <<>> ELSE LowerAt(s, i) \o LowerFrom(s, i + 1)

\* str.lower()
Lower(s) ==
    IF s = <<>> THEN <<>>
    ELSE IF \A i \in 1..Len(s) : s[i] # 304
         THEN [i \in 1..Len(s) |-> LowerAt(s, i)[1]]
         ELSE LowerFrom(s, 1)

\* str.startswith(p)
StartsWith(s, p) == Len(s) >= Len(p) /\ SubSeq(s, 1, Len(p)) = p

\* p in s
Contains(s, p) == \E i \in 1..(Len(s) - Len(p) + 1) : SubSeq(s, i, i + Len(p) - 1) = p

RECURSIVE LStrip(_, _)
LStrip(s, cs) == IF s # <<>> /\ Head(s) \in cs THEN LStrip(Tail(s), cs) ELSE s

RECURSIVE RStrip(_, _)
RStrip(s, cs) ==
    IF s # <<>> /\ s[Len(s)] \in cs THEN RStrip(SubSeq(s, 1, Len(s) - 1), cs) ELSE s

\* str.strip(chars): characters of cs removed from both ends
StripChars(s, cs) == RStrip(LStrip(s, cs), cs)

\* str.strip(): whitespace removed from both ends
Strip(s) == StripChars(s, Whitespace)

\* str.split(sep) for a one-character separator
RECURSIVE Split(_, _)
Split(s, sep) ==
    IF \E i \in 1..Len(s) : s[i] = sep
    THEN LET i == CHOOSE k \in 1..Len(s) : s[k] = sep /\ \A j \in 1..(k - 1) : s[j] # sep
         IN  <<SubSeq(s, 1, i - 1)>> \o Split(SubSeq(s, i + 1, Len(s)), sep)
    ELSE <<s>>

\* str.replace(old, new): every occurrence, left to right, not overlapping
RECURSIVE Replace(_, _, _)
Replace(s, old, new) ==
    IF Len(s) < Len(old) THEN s
    ELSE IF SubSeq(s, 1, Len(old)) = old
         THEN new \o Replace(SubSeq(s, Len(old) + 1, Len(s)), old, new)
         ELSE <<Head(s)>> \o Replace(Tail(s), old, new)

\* "\n".join(lines), used to build the replies the model may give
RECURSIVE Join(_)
Join(lines) ==
    IF lines = <<>> THEN <<>>
    ELSE IF Len(lines) = 1 THEN lines[1]
    ELSE lines[1] \o <<Newline>> \o Join(Tail(lines))

\* list[i] with a 0-based index; a negative index counts from the end
At(list, i) == IF i >= 0 THEN list[i + 1] ELSE list[Len(list) + i + 1]

\* list[:n]
Take(list, n) == SubSeq(list, 1, IF Len(list) < n THEN Len(list) ELSE n)

----------------------------------------------------------------------------
(* generate_questions *)

IsNonEmpty(s) == s # <<>>

\* line.strip("12345. ").strip()
CleanLine(line) == Strip(StripChars(line, Range(NumberingChars)))

\* the loop over content.split("\n"): the non-empty cleaned lines, in order
ParseQuestions(reply) ==
    LET lines == Split(reply, Newline)
    IN  SelectSeq([i \in 1..Len(lines) |-> CleanLine(lines[i])], IsNonEmpty)

\* a variant that takes the first line without looking whether there is one
GenerateQuestionsUnchecked(reply) ==
    LET parsed == ParseQuestions(reply)
    IN  [raised |-> FALSE,
         questions |-> Take(parsed, MaxQuestions),
         current_index |-> 0,
         message |-> IF parsed = <<>> THEN <<>> ELSE At(parsed, 0)]

\* the returned update; questions[0] raises IndexError on an empty list
GenerateQuestions(reply) ==
    LET parsed == ParseQuestions(reply)
    IN  IF parsed = <<>>
        THEN [raised |-> TRUE, questions |-> <<>>]
        ELSE [raised |-> FALSE,
              questions |-> Take(parsed, MaxQuestions),
              current_index |-> 0,
              message |-> At(parsed, 0)]

----------------------------------------------------------------------------
(* evaluate_answer *)

\* list[i] raises IndexError
OutOfRange(list, i) == i < -Len(list) \/ i >= Len(list)

\* one pass of the loop over the lines of the lower-cased reply
RECURSIVE ScanLines(_, _)
ScanLines(lines, acc) ==
    IF lines = <<>> THEN acc
    ELSE LET line == Head(lines)
         IN  ScanLines(Tail(lines),
               [strength |->
                    IF StartsWith(line, StrengthPrefix)
                    THEN Strip(Replace(line, StrengthLabel, <<>>))
                    ELSE acc.strength,
                weakness |->
                    IF StartsWith(line, WeaknessPrefix)
                    THEN Strip(Replace(line, WeaknessLabel, <<>>))
                    ELSE acc.weakness,
                followup_needed |->
                    acc.followup_needed \/ Contains(line, FollowupYes)])

\* a variant that scans the reply without lower-casing it
ParseEvaluationCaseSensitive(reply) ==
    ScanLines(Split(reply, Newline),
              [strength |-> <<>>, weakness |-> <<>>, followup_needed |-> FALSE])

\* strength, weakness and followup_needed after the loop
ParseEvaluation(reply) ==
    ScanLines(Split(Lower(reply), Newline),
              [strength |-> <<>>, weakness |-> <<>>, followup_needed |-> FALSE])

\* a variant in which a follow-up consumes a main-question slot
FollowupResultAdvancing(st, followReply) ==
    [update |-> [current_index |-> st.current_index + 1,
                message |-> Strip(followReply)],
     branch |-> "followup",
     subscripts |-> {}]

\* the follow-up return: the model's probing question, no current_index
FollowupResult(st, followReply) ==
    [update |-> [message |-> Strip(followReply)],
     branch |-> "followup",
     subscripts |-> {}]

\* a variant that writes idx += 2
AdvanceResultSkipping(st) ==
    LET i == st.current_index + 2
    IN  IF i >= Len(st.questions)
        THEN [update |-> [current_index |-> i,
                         message |-> InterviewCompleteMsg],
              branch |-> "terminal",
              subscripts |-> {}]
        ELSE [update |-> [current_index |-> i,
                         message |-> At(st.questions, i)],
              branch |-> "advance",
              subscripts |-> {i}]

\* a variant that tests idx > len(questions)
AdvanceResultOffByOne(st) ==
    LET i == st.current_index + 1
    IN  IF i > Len(st.questions)
        THEN [update |-> [current_index |-> i,
                         message |-> InterviewCompleteMsg],
              branch |-> "terminal",
              subscripts |-> {}]
        ELSE [update |-> [current_index |-> i,
                         message |-> IF OutOfRange(st.questions, i) THEN <<>>
                          ELSE At(st.questions, i)],
              branch |-> "advance",
              subscripts |-> {i}]

\* a variant that emits the question at the old index
AdvanceResultRepeating(st) ==
    LET i == st.current_index + 1
    IN  IF i >= Len(st.questions)
        THEN [update |-> [current_index |-> i,
                         message |-> InterviewCompleteMsg],
              branch |-> "terminal",
              subscripts |-> {}]
        ELSE [update |-> [current_index |-> i,
                         message |-> At(st.questions, st.current_index)],
              branch |-> "advance",
              subscripts |-> {st.current_index}]

\* idx += 1, then the terminal message or the question at the new index
AdvanceResult(st) ==
    LET i == st.current_index + 1
    IN  IF i >= Len(st.questions)
        THEN [update |-> [current_index |-> i,
                         message |-> InterviewCompleteMsg],
              branch |-> "terminal",
              subscripts |-> {}]
        ELSE [update |-> [current_index |-> i,
                         message |-> At(st.questions, i)],
              branch |-> "advance",
              subscripts |-> {i}]

\* evaluate_answer(state): the strengths and weaknesses it leaves in state,
\* and the update it returns; answers[-1] or questions[idx] raises IndexError
\* before anything else is done
EvaluateAnswer(st, evalReply, followReply) ==
    LET p == ParseEvaluation(evalReply)
        r == IF p.followup_needed THEN FollowupResult(st, followReply)
             ELSE AdvanceResult(st)
    IN  IF OutOfRange(st.answers, -1) \/ OutOfRange(st.questions, st.current_index)
        THEN [raised |-> TRUE]
        ELSE
        [raised |-> FALSE,
         strengths |-> IF p.strength # <<>> THEN Append(st.strengths, p.strength)
                       ELSE st.strengths,
         weaknesses |-> IF p.weakness # <<>> THEN Append(st.weaknesses, p.weakness)
                        ELSE st.weaknesses,
         update |-> r.update,
         branch |-> r.branch,
         subscripts |-> {st.current_index} \cup r.subscripts]

----------------------------------------------------------------------------
(* The replies the hosted model and the candidate may give. *)

GenTwo ==  \* "1. Explain X\n2. Explain Y"
    <<49, 46, 32, 69, 120, 112, 108, 97, 105, 110, 32, 88, 10, 50, 46, 32, 69,
    120, 112, 108, 97, 105, 110, 32, 89>>

GenOne ==  \* "1. Explain X"
    <<49, 46, 32, 69, 120, 112, 108, 97, 105, 110, 32, 88>>

GenThree ==  \* "1. X\n2. Is the Interview Complete?\n3. Z"
    <<49, 46, 32, 88, 10, 50, 46, 32, 73, 115, 32, 116, 104, 101, 32, 73, 110,
    116, 101, 114, 118, 105, 101, 119, 32, 67, 111, 109, 112, 108, 101, 116,
    101, 63, 10, 51, 46, 32, 90>>

GenBlank ==
    <<>>

GenOnlyNumbers ==  \* "1. \n 2.\n\u2003"
    <<49, 46, 32, 10, 32, 50, 46, 10, 8195>>

GenSeven ==  \* "1. A\n2. B\n3. C\n4. D\n5. E\n6. F\n7. G"
    <<49, 46, 32, 65, 10, 50, 46, 32, 66, 10, 51, 46, 32, 67, 10, 52, 46, 32,
    68, 10, 53, 46, 32, 69, 10, 54, 46, 32, 70, 10, 55, 46, 32, 71>>

GenResponses == {GenTwo, GenOne, GenThree, GenSeven, GenBlank, GenOnlyNumbers}

EvalFollow ==  \* "Strength: Good\nWeakness: vague\nFollowUp: yes"
    <<83, 116, 114, 101, 110, 103, 116, 104, 58, 32, 71, 111, 111, 100, 10, 87,
    101, 97, 107, 110, 101, 115, 115, 58, 32, 118, 97, 103, 117, 101, 10, 70,
    111, 108, 108, 111, 119, 85, 112, 58, 32, 121, 101, 115>>

EvalAdvance ==  \* "Strength: Good\nWeakness:\nFollowUp: no"
    <<83, 116, 114, 101, 110, 103, 116, 104, 58, 32, 71, 111, 111, 100, 10, 87,
    101, 97, 107, 110, 101, 115, 115, 58, 10, 70, 111, 108, 108, 111, 119, 85,
    112, 58, 32, 110, 111>>

EvalShout ==  \* "wea\u212aness: slow\u00a0\nFOLLOWUP: YES"
    <<119, 101, 97, 8490, 110, 101, 115, 115, 58, 32, 115, 108, 111, 119, 160,
    10, 70, 79, 76, 76, 79, 87, 85, 80, 58, 32, 89, 69, 83>>

EvalPlain ==  \* "ok"
    <<111, 107>>

EvalResponses == {EvalFollow, EvalAdvance, EvalShout, EvalPlain}

FollowPlain ==  \* "\u00a0Why? "
    <<160, 87, 104, 121, 63, 32>>

FollowSentinel ==  \* "Is the Interview Complete?"
    <<73, 115, 32, 116, 104, 101, 32, 73, 110, 116, 101, 114, 118, 105, 101,
    119, 32, 67, 111, 109, 112, 108, 101, 116, 101, 63>>

FollowResponses == {FollowPlain, FollowSentinel}

\* the typed answers "yes" and "no idea"
Answers == {<<121, 101, 115>>, <<110, 111, 32, 105, 100, 101, 97>>}

\* every string of at most n characters of alphabet
StringsUpTo(alphabet, n) == UNION {[1..k -> alphabet] : k \in 0..n}

\* the characters 1 6 . space tab newline no-break-space a
ParserAlphabet == {49, 54, 46, 32, 9, 10, 160, 97}

\* the lines "", "1. a" and "6. a"
ParserLines == {<<>>, <<49, 46, 32, 97>>, <<54, 46, 32, 97>>}

ParserResponses ==
    StringsUpTo(ParserAlphabet, MaxLen)
        \cup {Join(ls) : ls \in StringsUpTo(ParserLines, MaxLines)}

LineStrengthGood ==  \* "Strength: Good"
    <<83, 116, 114, 101, 110, 103, 116, 104, 58, 32, 71, 111, 111, 100>>

LineStrengthEmpty ==  \* "Strength:"
    <<83, 116, 114, 101, 110, 103, 116, 104, 58>>

LineStrengthTwice ==  \* "strength: a strength: c"
    <<115, 116, 114, 101, 110, 103, 116, 104, 58, 32, 97, 32, 115, 116, 114,
    101, 110, 103, 116, 104, 58, 32, 99>>

LineWeakness ==  \* "Weakness: w "
    <<87, 101, 97, 107, 110, 101, 115, 115, 58, 32, 119, 32>>

LineFollowYes ==  \* "FollowUp: yes"
    <<70, 111, 108, 108, 111, 119, 85, 112, 58, 32, 121, 101, 115>>

EvalLines ==
    {LineStrengthGood, LineStrengthEmpty, LineStrengthTwice, LineWeakness,
     LineFollowYes}

EvalLineResponses == {Join(ls) : ls \in StringsUpTo(EvalLines, MaxEvalLines)}

----------------------------------------------------------------------------
(* run_interview *)

\* the state before run_interview is called, with the reply the model will
\* give to the generation prompt drawn from replies
InitWith(replies) ==
    /\ pc = "start"
    /\ content \in replies
    /\ state = [questions |-> <<>>, current_index |-> 0, answers |-> <<>>,
                strengths |-> <<>>, weaknesses |-> <<>>]
    /\ questions = <<>>
    /\ current_question = <<>>
    /\ idx = 0
    /\ followup_mode = FALSE
    /\ result = <<>>
    /\ response = <<>>
    /\ branch = "none"
    /\ lookups = {}
    /\ presented = <<>>
    /\ followups = 0
    /\ advances = 0

Init == InitWith(GenResponses)

\* extract_text found nothing readable: "No readable text found." and return
RunInterviewNoText ==
    /\ pc = "start"
    /\ pc' = "notext"
    /\ UNCHANGED <<content, state, questions, current_question, idx, followup_mode,
                   result, response, branch, lookups, presented, followups, advances>>

\* graph.invoke(state) runs generate_questions; its update is read into the
\* locals, and an exception it raises ends run_interview
RunInterviewGenerate ==
    /\ pc = "start"
    /\ \E g \in {GenerateQuestions(content)} :
           IF g.raised
           THEN /\ pc' = "error"
                /\ UNCHANGED <<result, questions, current_question, idx,
                               followup_mode>>
           ELSE /\ pc' = "read"
                /\ result' = [current_index |-> g.current_index,
                              message |-> g.message]
                /\ questions' = g.questions
                /\ current_question' = g.message
                /\ idx' = 0
                /\ followup_mode' = FALSE
    /\ UNCHANGED <<content, state, response, branch, lookups, presented,
                   followups, advances>>

\* top of the loop: print the question, read the answer, store it in state
ReadAnswerUpTo(maxTurns, answers) ==
    /\ pc = "read"
    /\ Len(state.answers) < maxTurns
    /\ \E answer \in answers :
          state' = [state EXCEPT !.answers = Append(@, answer),
                                 !.current_index = idx,
                                 !.questions = questions]
    /\ presented' = IF followup_mode THEN presented
                    ELSE Append(presented, current_question)
    /\ pc' = "evaluate"
    /\ UNCHANGED <<content, questions, current_question, idx, followup_mode, result,
                   response, branch, lookups, followups, advances>>

\* a test that forgets to lower-case the message
IsCompleteCaseSensitive(text) == Contains(text, CompleteSentinel)

\* "interview complete" in current_question.lower()
IsComplete(text) == Contains(Lower(text), CompleteSentinel)

\* result.get("current_index") is not None
HasIndex(update) == "current_index" \in DOMAIN update

\* rest of the loop body: evaluate_answer, then the runner's reading of its update
EvaluateWith(evalReplies, followReplies) ==
    /\ pc = "evaluate"
    /\ \E evalReply \in evalReplies, followReply \in followReplies :
       \E r \in {EvaluateAnswer(state, evalReply, followReply)} :
          IF r.raised
          THEN /\ pc' = "error"
               /\ UNCHANGED <<state, current_question, idx, followup_mode, result,
                              response, branch, lookups, followups, advances>>
          ELSE \E complete \in {IsComplete(r.update.message)} :
               LET newIdx == IF ~complete /\ HasIndex(r.update)
                             THEN r.update.current_index ELSE idx
               IN  /\ response' = evalReply
                   /\ state' = [state EXCEPT !.strengths = r.strengths,
                                             !.weaknesses = r.weaknesses]
                   /\ result' = r.update
                   /\ current_question' = r.update.message
                   /\ idx' = newIdx
                   /\ followup_mode' = IF complete THEN followup_mode
                                       ELSE ~HasIndex(r.update)
                   /\ pc' = IF complete \/ newIdx >= Len(questions) THEN "done"
                            ELSE "read"
                   /\ branch' = r.branch
                   /\ lookups' = lookups \cup r.subscripts
                   /\ followups' = IF r.branch = "followup" THEN followups + 1
                                   ELSE 0
                   /\ advances' = IF r.branch = "followup" THEN advances
                                  ELSE advances + 1
    /\ UNCHANGED <<content, questions, presented>>

ReadAnswer == ReadAnswerUpTo(MaxTurns, Answers)

Evaluate == EvaluateWith(EvalResponses, FollowResponses)

Next == RunInterviewNoText \/ RunInterviewGenerate \/ ReadAnswer \/ Evaluate

Spec == Init /\ [][Next]_vars

\* sessions over every evaluation reply of at most MaxEvalLines sample lines
ReadAnswerEval == ReadAnswerUpTo(MaxEvalTurns, Answers)

EvaluateLines == EvaluateWith(EvalLineResponses, FollowResponses)

EvalNext ==
    RunInterviewNoText \/ RunInterviewGenerate \/ ReadAnswerEval \/ EvaluateLines

EvalInit == InitWith({GenTwo, GenOne})

EvalSpec == EvalInit /\ [][EvalNext]_vars

\* generate_questions over every short reply
ParserInit == InitWith(ParserResponses)

ParserNext == RunInterviewNoText \/ RunInterviewGenerate

ParserSpec == ParserInit /\ [][ParserNext]_vars

\* sessions in which the model signals at most MaxFollowups follow-ups in a
\* row on one question; the candidate answers every question that is printed
\* and every call of the model returns
LiveEvalResponses == {EvalFollow, EvalAdvance}

LiveAdvanceResponses == {EvalAdvance}

\* the turns of two questions with MaxFollowups follow-ups each
MaxLiveTurns == 2 * (MaxFollowups + 1)

ReadAnswerLive == ReadAnswerUpTo(MaxLiveTurns, Answers)

EvaluateLive ==
    EvaluateWith(IF followups < MaxFollowups THEN LiveEvalResponses
                 ELSE LiveAdvanceResponses,
                 FollowResponses)

LiveNext ==
    RunInterviewNoText \/ RunInterviewGenerate \/ ReadAnswerLive \/ EvaluateLive

LiveInit == InitWith({GenTwo, GenOne})

\* input() returns: the step of ReadAnswerLive, seen on pc alone.  It is
\* possible whenever pc = "read", by C9_LiveTurnsSuffice.
AnswerArrives == pc = "read" /\ pc' = "evaluate"

\* the calls of the model return: the step of EvaluateLive, seen on pc alone.
\* It is possible whenever pc = "evaluate".
ReplyArrives == pc = "evaluate" /\ pc' \in {"read", "done", "error"}

\* the candidate answers every question printed and every call of the model
\* returns; fairness is stated on pc, which every step of the two actions
\* changes, and only their steps change
LiveSpec ==
    LiveInit /\ [][LiveNext]_vars /\ WF_pc(AnswerArrives) /\ WF_pc(ReplyArrives)

----------------------------------------------------------------------------
(* Properties. *)

\* the step in which evaluate_answer returns and the runner reads its update
EvaluateReturned == pc = "evaluate" /\ pc' \in {"read", "done"}

\* the evaluation reply, lower-cased, contains "followup: yes"
FollowupSignalled(reply) == Contains(Lower(reply), FollowupYes)

Numerals == 48..57  \* the characters 0 to 9

\* the lines of the lower-cased reply that start with prefix, in order
LinesStarting(reply, prefix) ==
    LET lines == Split(Lower(reply), Newline)
        starts(line) == StartsWith(line, prefix)
    IN  SelectSeq(lines, starts)

\* the trimmed remainders of the lines that begin with label
LabelledPayloads(reply, label) ==
    LET lines == LinesStarting(reply, label)
    IN  {Strip(SubSeq(lines[i], Len(label) + 1, Len(lines[i]))) : i \in 1..Len(lines)}

\* the last line that starts with prefix, every label removed, trimmed
LastLabelled(reply, prefix, label) ==
    LET lines == LinesStarting(reply, prefix)
    IN  IF lines = <<>> THEN <<>>
        ELSE Strip(Replace(lines[Len(lines)], label, <<>>))

AppendIfAny(list, value) == IF value = <<>> THEN list ELSE Append(list, value)

\* C1: when the evaluation reply contains "followup: yes" after lower-casing,
\* evaluate_answer returns the follow-up question as the next message with no
\* current_index, and the runner's index and state["current_index"] are the
\* same after the call as before it.
C1_FollowupKeepsIndex ==
    [][(EvaluateReturned /\ FollowupSignalled(response'))
        => /\ ~HasIndex(result')
           /\ current_question' = result'.message
           /\ idx' = idx
           /\ state.current_index = idx
           /\ state'.current_index = idx]_vars

\* a follow-up turn on the second main question
C1_Witness ==
    /\ pc = "read"
    /\ branch = "followup"
    /\ FollowupSignalled(response)
    /\ idx = 1
    /\ followup_mode

\* C2: over any mix of follow-up and advance turns the index never decreases;
\* it changes only on an advance, by exactly one, and a returned current_index
\* is the index the call was given plus one.
C2_IndexNeverDecrements ==
    [][/\ idx' >= idx
       /\ idx' # idx => (idx' = idx + 1 /\ branch' = "advance")
       /\ (EvaluateReturned /\ HasIndex(result'))
            => (/\ result'.current_index = state.current_index + 1
                /\ branch' \in {"advance", "terminal"})]_vars

\* three advances with a follow-up turn in between
C2_Witness ==
    /\ idx = 2
    /\ Len(state.answers) >= 3
    /\ branch = "followup"

\* C3 as stated: after an advance that makes the last main question current,
\* the next call to evaluate_answer emits the terminal message.
C3_NextCallIsTerminal ==
    [][(EvaluateReturned /\ branch = "advance" /\ idx + 1 = Len(questions))
        => (result'.message = InterviewCompleteMsg /\ pc' = "done")]_vars

\* C3 as amended: when the last main question is current, the next call whose
\* evaluation reply does not signal a follow-up emits the terminal message and
\* ends the loop with the runner's index unchanged; once the loop has ended
\* nothing changes any more.
C3_NextAdvanceIsTerminal ==
    [][/\ (EvaluateReturned /\ idx + 1 = Len(questions)
              /\ ~FollowupSignalled(response'))
          => (/\ result'.message = InterviewCompleteMsg
              /\ HasIndex(result')
              /\ result'.current_index = Len(questions)
              /\ branch' = "terminal"
              /\ pc' = "done"
              /\ idx' = idx)
       /\ pc = "done" => UNCHANGED vars]_vars

\* the terminal message after a follow-up on the last of two questions
C3_Witness ==
    /\ pc = "done"
    /\ branch = "terminal"
    /\ Len(questions) = 2
    /\ Len(state.answers) = 3
    /\ advances = 2

\* C4: the index never exceeds the number of questions; a returned
\* current_index equal to that number comes only with the terminal message,
\* which ends the loop; and evaluate_answer never subscripts questions with an
\* index outside 0 .. len(questions) - 1.
C4_IndexWithinQuestions ==
    /\ idx <= Len(questions)
    /\ state.current_index <= Len(questions)
    /\ HasIndex(result) => result.current_index <= Len(questions)
    /\ pc \in {"read", "evaluate"} => idx < Len(questions)
    /\ (HasIndex(result) /\ result.current_index = Len(questions))
         => (/\ result.message = InterviewCompleteMsg
             /\ branch = "terminal"
             /\ pc = "done")
    /\ \A i \in lookups : 0 <= i /\ i < Len(questions)
    /\ pc # "error" \/ questions = <<>>

\* the terminal signal after both questions were looked up
C4_Witness ==
    /\ pc = "done"
    /\ Len(questions) = 2
    /\ HasIndex(result)
    /\ result.current_index = 2
    /\ lookups = {0, 1}

\* C5 as stated: the parsed question list has at most 5 entries and none of
\* them begins with a numeral, a period or a space.
C5_ParserOutput ==
    pc = "read"
      => /\ Len(questions) <= MaxQuestions
         /\ \A i \in 1..Len(questions) :
               /\ questions[i] # <<>>
               /\ Head(questions[i]) \notin Numerals \cup {46, 32}

\* C6 as stated: each line labelled "strength:" or "weakness:" (in any case)
\* appears, trimmed, in strengths respectively weaknesses after the call.
C6_EveryLabelledLineKept ==
    (pc \in {"read", "done"} /\ branch # "none")
      => /\ \A p \in LabelledPayloads(response, StrengthLabel) :
               p = <<>> \/ p \in Range(state.strengths)
         /\ \A p \in LabelledPayloads(response, WeaknessLabel) :
               p = <<>> \/ p \in Range(state.weaknesses)

\* C6 as amended: on either branch a call appends at most one strength and
\* one weakness: that of the last line of the lower-cased reply starting with
\* "strength" (resp. "weakness"), with every "strength:" removed and trimmed,
\* when that is non-empty; earlier labelled lines are dropped.
C6_LastLabelledLineKept ==
    [][EvaluateReturned
        => /\ state'.strengths =
                AppendIfAny(state.strengths,
                            LastLabelled(response', StrengthPrefix, StrengthLabel))
           /\ state'.weaknesses =
                AppendIfAny(state.weaknesses,
                            LastLabelled(response', WeaknessPrefix, WeaknessLabel))]_vars

\* two strength lines in one reply: only the second is kept, lower-cased and
\* with both of its labels removed
C6_Witness ==
    /\ response = Join(<<LineStrengthGood, LineStrengthTwice>>)
    /\ state.strengths = <<<<97, 32, 32, 99>>>>  \* ["a  c"]
    /\ branch = "advance"

\* C7: when the reply lacks "followup: yes" and a further question exists,
\* evaluate_answer returns current_index + 1 and the question at that index,
\* which the runner takes over unless it ends the loop; the main questions
\* printed are always an initial part of the question list, in its order.
C7_AdvanceEmitsNextQuestion ==
    [][/\ (EvaluateReturned /\ ~FollowupSignalled(response')
              /\ idx + 1 < Len(questions))
          => (/\ HasIndex(result')
              /\ result'.current_index = idx + 1
              /\ result'.message = questions[idx + 2]
              /\ branch' = "advance"
              /\ pc' = "read" => (/\ idx' = idx + 1
                                  /\ current_question' = questions[idx + 2]
                                  /\ ~followup_mode'))
       /\ presented' = SubSeq(questions', 1, Len(presented'))
       /\ Len(presented') \in {idx', idx' + 1}]_vars

\* both questions of a two-question interview were printed, then the end
C7_Witness ==
    /\ pc = "done"
    /\ branch = "terminal"
    /\ Len(questions) = 2
    /\ presented = questions
    /\ questions[2] = <<69, 120, 112, 108, 97, 105, 110, 32, 89>>  \* "Explain Y"

\* C8 as stated: the loop ends exactly when the message contains the sentinel
\* or the index has run past the questions, so that on its end every main
\* question has been advanced past and the last turn was not a follow-up.
C8_LoopEndsWhenExhausted ==
    /\ pc = "done" => (IsComplete(current_question) \/ idx >= Len(questions))
    /\ (pc = "read" /\ Len(state.answers) > 0)
         => (~IsComplete(current_question) /\ idx < Len(questions))
    /\ pc = "done" => (advances = Len(questions) /\ branch # "followup")

\* C9 as stated: a reply that signals a follow-up never ends the loop,
\* however many follow-ups came before: the turn is a follow-up turn, the index
\* and the count of advances stay, and the runner goes on to read the next
\* answer.
C9_FollowupsNeverComplete ==
    [][(EvaluateReturned /\ FollowupSignalled(response'))
        => /\ branch' = "followup"
           /\ followups' = followups + 1
           /\ advances' = advances
           /\ idx' = idx
           /\ pc' = "read"]_vars

\* the part of C9 that holds: evaluate_answer enforces no cap, a reply that
\* signals a follow-up yields a follow-up turn with the index and the count of
\* advances unchanged, whatever the number of follow-ups before it.
C9_NoCapOnFollowups ==
    [][(EvaluateReturned /\ FollowupSignalled(response'))
        => /\ branch' = "followup"
           /\ ~HasIndex(result')
           /\ followups' = followups + 1
           /\ advances' = advances
           /\ idx' = idx]_vars

\* as many follow-ups on the first question as the session has turns
C9_ManyFollowups ==
    /\ pc = "read"
    /\ followups = MaxTurns
    /\ idx = 0
    /\ advances = 0

\* the last part of C9: when the model signals at most MaxFollowups follow-ups
\* in a row on a question, a session that has printed a question reaches the
\* end of the loop.
C9_FiniteFollowupsComplete == (pc = "read") ~> (pc = "done")

\* under that assumption the bound on the turns of LiveSpec is never met
C9_LiveTurnsSuffice == pc = "read" => Len(state.answers) < MaxLiveTurns

\* C10: when the generation reply has no non-empty cleaned line,
\* generate_questions raises: no update is read, no question is printed, no
\* answer is read and evaluate_answer is never called.
C10_NoQuestionsNoInterview ==
    (pc \notin {"start", "notext"} /\ ParseQuestions(content) = <<>>)
      => /\ pc = "error"
         /\ questions = <<>>
         /\ current_question = <<>>
         /\ presented = <<>>
         /\ state.answers = <<>>
         /\ state.questions = <<>>
         /\ branch = "none"

\* the lookup failed on a reply of numbering only
C10_Witness ==
    /\ pc = "error"
    /\ content = GenOnlyNumbers
    /\ questions = <<>>

====
